---- MODULE Spec2Model ----
(***************************************************************************)
(* Model of fetchFindings (src/get_users.go:555-700): a pool of worker     *)
(* goroutines that pull continuation tokens from a buffered channel, fetch *)
(* one page per token, append the page's records to a shared slice and     *)
(* push the follow-on token; a detector goroutine that closes the channel  *)
(* when it sees no active worker and an empty channel; and the caller,     *)
(* which joins the workers and returns the records or the first error.     *)
(*                                                                         *)
(* Every statement that touches shared state is a step of its own; the     *)
(* three mutexes are modelled by their holder.  sync.WaitGroup is modelled *)
(* by its counter, its waiter count and its semaphore, with the panics     *)
(* its Add and Wait raise on misuse.                                       *)
(***************************************************************************)
EXTENDS Integers, Sequences, FiniteSets, TLC

\* ---- bounds of the model ------------------------------------------------
MaxNegative == 1     \* workerCount ranges over -MaxNegative..MaxWorkers
MaxWorkers == 3
MaxPages   == 3      \* the page chain has 1..MaxPages pages
MaxRecs    == 2      \* every page of a chain carries 0..MaxRecs records
QueueCap   == 1      \* buffer size of tokenQueue (1000 at get_users.go:580)

\* ---- names ---------------------------------------------------------------
Nil      == 0        \* the nil *string: the seed token, and "no NextToken"
NoErr    == <<>>     \* fetchErr == nil
Free     == -1       \* a mutex nobody holds
Detector == 0        \* the detector goroutine, as a mutex holder
NoRun    == [findings |-> <<>>, err |-> <<-1>>]   \* no earlier run recorded

VARIABLES
  workerCount,   \* argument of fetchFindings
  numPages,      \* stub: number of pages of the chain
  failPage,      \* stub: the page whose fetch fails, 0 for none
  recsPerPage,   \* stub: records on every page
  tokenQueue,    \* buffered channel of tokens
  isQueueOpen,   \* the flag guarded by tokenQueueOpen
  closeCount,    \* number of close(tokenQueue) executed
  qLock,         \* holder of tokenQueueOpen
  errMux,        \* holder of errMux
  findingsMux,   \* holder of findingsMux
  fetchErr,      \* the error sink
  allFindings,   \* the shared result slice
  awCount,       \* activeWorkers: counter
  awWaiters,     \* activeWorkers: goroutines registered in Wait
  awSema,        \* activeWorkers: semaphore releases not yet consumed
  pc,            \* position of every worker
  tok,           \* token every worker holds
  doneW,         \* waiters every worker's Done has still to release
  dpc,           \* position of the detector
  mainPc,        \* position of the caller
  ret,           \* what fetchFindings returned
  panic,         \* "none", or the first runtime panic raised
  crashed,       \* the runtime has ended the process after a panic
  warnings,      \* number of queue-full warnings logged
  dropped,       \* follow-on tokens obtained from a fetch and not enqueued
  prev           \* result of the earlier run (two-run comparison only)

vars == <<workerCount, numPages, failPage, recsPerPage, tokenQueue,
          isQueueOpen, closeCount, qLock, errMux, findingsMux, fetchErr,
          allFindings, awCount, awWaiters, awSema, pc, tok, doneW, dpc,
          mainPc, ret, panic, crashed, warnings, dropped, prev>>

stubVars  == <<numPages, failPage, recsPerPage>>
lockVars  == <<qLock, errMux, findingsMux>>
awVars    == <<awCount, awWaiters, awSema>>
queueVars == <<tokenQueue, isQueueOpen, closeCount>>
logVars   == <<warnings, dropped>>

Workers == 1..workerCount

\* ---- the page-fetch stub -------------------------------------------------
\* The page a token names: nil names the first page, the token of page k
\* names page k+1.
PageOf(token) == token + 1

\* resp.NextToken of a page: nil on the last page.
NextTokenOf(page) == IF page < numPages THEN page ELSE Nil

\* resp.Findings of a page, in the page's order.
PageRecords(page) == [i \in 1..recsPerPage |-> <<page, i>>]

\* client.GetFindings fails on failPage.
FetchFails(page) == page = failPage

\* ---- pure pieces of the code ---------------------------------------------
\* tokenQueue <- nil before any goroutine starts.
SeedPerWorker == [i \in 1..workerCount |-> Nil]
SeedQueue == <<Nil>>

\* fmt.Errorf("worker %d error: %w", workerID, err)
WorkerError(w, page) == <<w, page>>

\* if fetchErr == nil { fetchErr = ... }
RecordErrInverted(cur, new) == IF cur # NoErr THEN new ELSE cur
RecordErr(cur, new) == IF cur = NoErr THEN new ELSE cur

\* token, ok = <-tokenQueue: the received token leaves the channel.
DequeuePeek(q) == q
Dequeue(q) == Tail(q)

\* allFindings = append(allFindings, resp.Findings...)
AppendPrepend(all, recs) == recs \o all
AppendFindings(all, recs) == all \o recs

\* The counter of activeWorkers after Add(delta); Done() is Add(-1).
AddCounterDropsAdd(c, delta) == IF delta > 0 THEN c ELSE c + delta
AddCounter(c, delta) == c + delta

\* The guarded non-blocking send of the follow-on token:
\* "sent", "full" (warning logged) or "closed" (nothing happens).
PushOutcome(open, q) ==
  IF open THEN (IF Len(q) < QueueCap THEN "sent" ELSE "full") ELSE "closed"

\* What the worker does after the push attempt: it never waits and goes on
\* to activeWorkers.Done().
AfterPushPc(outcome) == "mdone"

\* What the push attempt does to the error sink: nothing.
EscalatePushErr(outcome, cur, w) ==
  IF outcome = "sent" THEN cur ELSE RecordErr(cur, <<w, 0>>)
AfterPushErr(outcome, cur, w) == cur

\* The values fetchFindings returns once the workers are joined.
ReturnPartial(err, findings) == [findings |-> findings, err |-> err]
ReturnValue(err, findings) ==
  IF err # NoErr THEN [findings |-> <<>>, err |-> err]
                 ELSE [findings |-> findings, err |-> NoErr]

\* ---- initial state -------------------------------------------------------
InitRun(wc) ==
  /\ workerCount = wc
  /\ tokenQueue = SeedQueue
  /\ isQueueOpen = TRUE
  /\ closeCount = 0
  /\ qLock = Free /\ errMux = Free /\ findingsMux = Free
  /\ fetchErr = NoErr
  /\ allFindings = <<>>
  /\ awCount = 0 /\ awWaiters = 0 /\ awSema = 0
  /\ pc = [w \in 1..wc |-> "loop"]
  /\ tok = [w \in 1..wc |-> Nil]
  /\ doneW = [w \in 1..wc |-> 0]
  /\ dpc = "tick"
  /\ mainPc = "wait"
  /\ ret = NoRun
  /\ panic = "none"
  /\ crashed = FALSE
  /\ warnings = 0 /\ dropped = 0

InitStub ==
  /\ numPages \in 1..MaxPages
  /\ failPage \in 0..numPages
  /\ recsPerPage \in 0..MaxRecs

Init ==
  /\ InitStub
  /\ \E wc \in (0 - MaxNegative)..MaxWorkers : InitRun(wc)
  /\ prev = NoRun

\* The process is alive: neither has main ended it nor has the runtime,
\* having printed a panic.  A raised panic alone stops only the goroutine
\* that raised it.
Running == ~crashed /\ mainPc # "exited"

\* The panic the process reports: the first one raised.
Raise(msg) == IF panic = "none" THEN msg ELSE panic

\* ---- worker --------------------------------------------------------------
\* 594: tokenQueueOpen.Lock()
WLoopLock(w) ==
  /\ Running /\ pc[w] = "loop" /\ qLock = Free
  /\ qLock' = w
  /\ pc' = [pc EXCEPT ![w] = "chk"]
  /\ UNCHANGED <<workerCount, stubVars, queueVars, errMux, findingsMux,
                 fetchErr, allFindings, awVars, tok, doneW, dpc, mainPc, ret,
                 panic, crashed, logVars, prev>>

\* 595-599: leave the loop when the queue is closed and empty
WCheck(w) ==
  /\ Running /\ pc[w] = "chk"
  /\ qLock' = Free
  /\ pc' = [pc EXCEPT ![w] =
              IF ~isQueueOpen /\ Len(tokenQueue) = 0 THEN "done" ELSE "sel"]
  /\ UNCHANGED <<workerCount, stubVars, queueVars, errMux, findingsMux,
                 fetchErr, allFindings, awVars, tok, doneW, dpc, mainPc, ret,
                 panic, crashed, logVars, prev>>

\* 604: a token is received
WRecv(w) ==
  /\ Running /\ pc[w] = "sel" /\ Len(tokenQueue) > 0
  /\ tok' = [tok EXCEPT ![w] = Head(tokenQueue)]
  /\ tokenQueue' = Dequeue(tokenQueue)
  /\ pc' = [pc EXCEPT ![w] = "elock"]
  /\ UNCHANGED <<workerCount, stubVars, isQueueOpen, closeCount, lockVars,
                 fetchErr, allFindings, awVars, dpc, mainPc, ret, panic,
                 crashed, logVars, prev, doneW>>

\* 604-607: the receive reports the closed, drained channel
WRecvClosed(w) ==
  /\ Running /\ pc[w] = "sel" /\ Len(tokenQueue) = 0 /\ closeCount > 0
  /\ pc' = [pc EXCEPT ![w] = "done"]
  /\ UNCHANGED <<workerCount, stubVars, queueVars, lockVars, fetchErr,
                 allFindings, awVars, tok, doneW, dpc, mainPc, ret, panic,
                 crashed, logVars, prev>>

\* 608-609: two seconds pass with nothing to receive
WTimeout(w) ==
  /\ Running /\ pc[w] = "sel" /\ Len(tokenQueue) = 0 /\ closeCount = 0
  /\ pc' = [pc EXCEPT ![w] = "done"]
  /\ UNCHANGED <<workerCount, stubVars, queueVars, lockVars, fetchErr,
                 allFindings, awVars, tok, doneW, dpc, mainPc, ret, panic,
                 crashed, logVars, prev>>

\* 612: errMux.Lock()
WErrLock(w) ==
  /\ Running /\ pc[w] = "elock" /\ errMux = Free
  /\ errMux' = w
  /\ pc' = [pc EXCEPT ![w] = "echk"]
  /\ UNCHANGED <<workerCount, stubVars, queueVars, qLock, findingsMux,
                 fetchErr, allFindings, awVars, tok, doneW, dpc, mainPc, ret,
                 panic, crashed, logVars, prev>>

\* 613-617: give up when an error is already recorded
WErrCheck(w) ==
  /\ Running /\ pc[w] = "echk"
  /\ errMux' = Free
  /\ pc' = [pc EXCEPT ![w] = IF fetchErr # NoErr THEN "done" ELSE "add"]
  /\ UNCHANGED <<workerCount, stubVars, queueVars, qLock, findingsMux,
                 fetchErr, allFindings, awVars, tok, doneW, dpc, mainPc, ret,
                 panic, crashed, logVars, prev>>

\* 619: activeWorkers.Add(1).  Add panics when it raises the counter from
\* zero while a waiter is registered.
WAdd(w) ==
  /\ Running /\ pc[w] = "add"
  /\ awCount' = AddCounter(awCount, 1)
  /\ IF awWaiters # 0 /\ AddCounter(awCount, 1) = 1
       THEN /\ panic' = Raise("Add called concurrently with Wait")
            /\ pc' = [pc EXCEPT ![w] = "unwind"]
       ELSE panic' = panic /\ pc' = [pc EXCEPT ![w] = "fetch"]
  /\ UNCHANGED <<workerCount, stubVars, queueVars, lockVars, fetchErr,
                 allFindings, awWaiters, awSema, tok, doneW, dpc, mainPc,
                 ret, crashed, logVars, prev>>

\* 620-624: client.GetFindings returns
WFetch(w) ==
  /\ Running /\ pc[w] = "fetch"
  /\ pc' = [pc EXCEPT ![w] =
              IF FetchFails(PageOf(tok[w])) THEN "flock" ELSE "alock"]
  /\ UNCHANGED <<workerCount, stubVars, queueVars, lockVars, fetchErr,
                 allFindings, awVars, tok, doneW, dpc, mainPc, ret, panic,
                 crashed, logVars, prev>>

\* 625: errMux.Lock()
WFailLock(w) ==
  /\ Running /\ pc[w] = "flock" /\ errMux = Free
  /\ errMux' = w
  /\ pc' = [pc EXCEPT ![w] = "fset"]
  /\ UNCHANGED <<workerCount, stubVars, queueVars, qLock, findingsMux,
                 fetchErr, allFindings, awVars, tok, doneW, dpc, mainPc, ret,
                 panic, crashed, logVars, prev>>

\* 626-629: record the error if none is recorded
WFailSet(w) ==
  /\ Running /\ pc[w] = "fset"
  /\ fetchErr' = RecordErr(fetchErr, WorkerError(w, PageOf(tok[w])))
  /\ errMux' = Free
  /\ pc' = [pc EXCEPT ![w] = "fdone"]
  /\ UNCHANGED <<workerCount, stubVars, queueVars, qLock, findingsMux,
                 allFindings, awVars, tok, doneW, dpc, mainPc, ret, panic,
                 crashed, logVars, prev>>

\* 630, 653: activeWorkers.Done() is Add(-1).  Its atomic decrement: when
\* the counter reaches zero with waiters registered, the worker keeps the
\* waiter count of the state it obtained and goes on to release them.
WDone(w) ==
  /\ Running /\ pc[w] \in {"fdone", "mdone"}
  /\ awCount' = AddCounter(awCount, -1)
  /\ IF AddCounter(awCount, -1) < 0
       THEN /\ panic' = Raise("negative WaitGroup counter")
            /\ pc' = [pc EXCEPT ![w] = "unwind"]
            /\ doneW' = doneW
       ELSE /\ panic' = panic
            /\ IF AddCounter(awCount, -1) > 0 \/ awWaiters = 0
                 THEN /\ pc' = [pc EXCEPT ![w] =
                              IF pc[w] = "fdone" THEN "done" ELSE "loop"]
                      /\ doneW' = doneW
                 ELSE /\ pc' = [pc EXCEPT ![w] =
                              IF pc[w] = "fdone" THEN "frel" ELSE "mrel"]
                      /\ doneW' = [doneW EXCEPT ![w] = awWaiters]
  /\ UNCHANGED <<workerCount, stubVars, queueVars, lockVars, fetchErr,
                 allFindings, awWaiters, awSema, tok, dpc, mainPc, ret,
                 crashed, logVars, prev>>

\* 630, 653: Done(), the sanity check: the state is loaded again and must
\* still be the one the decrement produced (counter zero, same waiters).
WReleaseCheck(w) ==
  /\ Running /\ pc[w] \in {"frel", "mrel"}
  /\ IF awCount # 0 \/ awWaiters # doneW[w]
       THEN /\ panic' = Raise("Add called concurrently with Wait")
            /\ pc' = [pc EXCEPT ![w] = "unwind"]
       ELSE /\ panic' = panic
            /\ pc' = [pc EXCEPT ![w] = IF pc[w] = "frel" THEN "fsto" ELSE "msto"]
  /\ UNCHANGED <<workerCount, stubVars, queueVars, lockVars, fetchErr,
                 allFindings, awVars, tok, doneW, dpc, mainPc, ret, crashed,
                 logVars, prev>>

\* 630, 653: Done(), the reset: the state is stored as zero, whatever it
\* holds by now, so an Add(1) that came after the check is erased.
WReleaseStore(w) ==
  /\ Running /\ pc[w] \in {"fsto", "msto"}
  /\ awCount' = 0
  /\ awWaiters' = 0
  /\ pc' = [pc EXCEPT ![w] = IF pc[w] = "fsto" THEN "fsem" ELSE "msem"]
  /\ UNCHANGED <<workerCount, stubVars, queueVars, lockVars, fetchErr,
                 allFindings, awSema, tok, doneW, dpc, mainPc, ret, panic,
                 crashed, logVars, prev>>

\* 630, 653: Done(), the release loop: one semaphore release for every
\* waiter counted by the decrement, then Done returns.
WRelease(w) ==
  /\ Running /\ pc[w] \in {"fsem", "msem"}
  /\ IF doneW[w] # 0
       THEN /\ awSema' = awSema + 1
            /\ doneW' = [doneW EXCEPT ![w] = doneW[w] - 1]
            /\ pc' = pc
       ELSE /\ UNCHANGED <<awSema, doneW>>
            /\ pc' = [pc EXCEPT ![w] = IF pc[w] = "fsem" THEN "done" ELSE "loop"]
  /\ UNCHANGED <<workerCount, stubVars, queueVars, lockVars, fetchErr,
                 allFindings, awCount, awWaiters, tok, dpc, mainPc, ret,
                 panic, crashed, logVars, prev>>

\* 634: findingsMux.Lock()
WAppendLock(w) ==
  /\ Running /\ pc[w] = "alock" /\ findingsMux = Free
  /\ findingsMux' = w
  /\ pc' = [pc EXCEPT ![w] = "append"]
  /\ UNCHANGED <<workerCount, stubVars, queueVars, qLock, errMux, fetchErr,
                 allFindings, awVars, tok, doneW, dpc, mainPc, ret, panic,
                 crashed, logVars, prev>>

\* 635-641: append the page, unlock, look at resp.NextToken
WAppend(w) ==
  /\ Running /\ pc[w] = "append"
  /\ allFindings' = AppendFindings(allFindings, PageRecords(PageOf(tok[w])))
  /\ findingsMux' = Free
  /\ pc' = [pc EXCEPT ![w] =
              IF NextTokenOf(PageOf(tok[w])) # Nil THEN "plock" ELSE "mdone"]
  /\ UNCHANGED <<workerCount, stubVars, queueVars, qLock, errMux, fetchErr,
                 awVars, tok, doneW, dpc, mainPc, ret, panic, crashed,
                 logVars, prev>>

\* 642: tokenQueueOpen.Lock()
WPushLock(w) ==
  /\ Running /\ pc[w] = "plock" /\ qLock = Free
  /\ qLock' = w
  /\ pc' = [pc EXCEPT ![w] = "push"]
  /\ UNCHANGED <<workerCount, stubVars, queueVars, errMux, findingsMux,
                 fetchErr, allFindings, awVars, tok, doneW, dpc, mainPc, ret,
                 panic, crashed, logVars, prev>>

\* 643-650: the guarded non-blocking send
WPush(w) ==
  /\ Running /\ pc[w] = "push"
  /\ LET outcome == PushOutcome(isQueueOpen, tokenQueue)
         next    == NextTokenOf(PageOf(tok[w]))
     IN /\ tokenQueue' = IF outcome = "sent" THEN Append(tokenQueue, next)
                                             ELSE tokenQueue
        /\ warnings' = IF outcome = "full" THEN warnings + 1 ELSE warnings
        /\ dropped' = IF outcome = "sent" THEN dropped ELSE dropped + 1
        /\ fetchErr' = AfterPushErr(outcome, fetchErr, w)
        /\ pc' = [pc EXCEPT ![w] = AfterPushPc(outcome)]
        /\ qLock' = Free
  /\ UNCHANGED <<workerCount, stubVars, isQueueOpen, closeCount, errMux,
                 findingsMux, allFindings, awVars, tok, doneW, dpc, mainPc,
                 ret, panic, crashed, prev>>

\* 591: a worker that panicked inside activeWorkers.Add or Done unwinds: its
\* deferred wg.Done() runs, and the goroutine enters the runtime's fatal
\* panic path.  It holds no mutex at that point, and the token it held is
\* lost with it.
WUnwind(w) ==
  /\ Running /\ pc[w] = "unwind"
  /\ pc' = [pc EXCEPT ![w] = "fatal"]
  /\ UNCHANGED <<workerCount, stubVars, queueVars, lockVars, fetchErr,
                 allFindings, awVars, tok, doneW, dpc, mainPc, ret, panic,
                 crashed, logVars, prev>>

WorkerStep(w) ==
  \/ WLoopLock(w) \/ WCheck(w) \/ WRecv(w) \/ WRecvClosed(w) \/ WTimeout(w)
  \/ WErrLock(w) \/ WErrCheck(w) \/ WAdd(w) \/ WFetch(w)
  \/ WFailLock(w) \/ WFailSet(w) \/ WDone(w)
  \/ WReleaseCheck(w) \/ WReleaseStore(w) \/ WRelease(w)
  \/ WAppendLock(w) \/ WAppend(w) \/ WPushLock(w) \/ WPush(w)
  \/ WUnwind(w)

\* ---- detector ------------------------------------------------------------
\* 662: the ticker delivers a tick
DTick ==
  /\ Running /\ dpc = "tick"
  /\ dpc' = "wait"
  /\ UNCHANGED <<workerCount, stubVars, queueVars, lockVars, fetchErr,
                 allFindings, awVars, pc, tok, doneW, mainPc, ret, panic,
                 crashed, logVars, prev>>

\* 663: activeWorkers.Wait(): return at once on a zero counter, otherwise
\* register as a waiter and sleep on the semaphore
DWait ==
  /\ Running /\ dpc = "wait"
  /\ IF awCount = 0
       THEN dpc' = "dlock" /\ awWaiters' = awWaiters
       ELSE dpc' = "sem" /\ awWaiters' = awWaiters + 1
  /\ UNCHANGED <<workerCount, stubVars, queueVars, lockVars, fetchErr,
                 allFindings, awCount, awSema, pc, tok, doneW, mainPc, ret,
                 panic, crashed, logVars, prev>>

\* 663: activeWorkers.Wait() wakes up; it panics when the WaitGroup is in
\* use again.  The detector's only deferred call is ticker.Stop() (660), so
\* the panicking goroutine goes straight to the runtime's fatal panic path.
DWake ==
  /\ Running /\ dpc = "sem" /\ awSema > 0
  /\ awSema' = awSema - 1
  /\ IF awCount # 0 \/ awWaiters # 0
       THEN /\ panic' =
                 Raise("WaitGroup is reused before previous Wait has returned")
            /\ dpc' = "fatal"
       ELSE panic' = panic /\ dpc' = "dlock"
  /\ UNCHANGED <<workerCount, stubVars, queueVars, lockVars, fetchErr,
                 allFindings, awCount, awWaiters, pc, tok, doneW, mainPc,
                 ret, crashed, logVars, prev>>

\* 665: tokenQueueOpen.Lock()
DLock ==
  /\ Running /\ dpc = "dlock" /\ qLock = Free
  /\ qLock' = Detector
  /\ dpc' = "dchk"
  /\ UNCHANGED <<workerCount, stubVars, queueVars, errMux, findingsMux,
                 fetchErr, allFindings, awVars, pc, tok, doneW, mainPc, ret,
                 panic, crashed, logVars, prev>>

\* 666-672: close the empty open queue and stop, or wait for the next tick
DCheck ==
  /\ Running /\ dpc = "dchk"
  /\ IF Len(tokenQueue) = 0 /\ isQueueOpen
       THEN /\ isQueueOpen' = FALSE
            /\ closeCount' = closeCount + 1
            /\ dpc' = "done"
       ELSE /\ UNCHANGED <<isQueueOpen, closeCount>>
            /\ dpc' = "tick"
  /\ qLock' = Free
  /\ UNCHANGED <<workerCount, stubVars, tokenQueue, errMux, findingsMux,
                 fetchErr, allFindings, awVars, pc, tok, doneW, mainPc, ret,
                 panic, crashed, logVars, prev>>

DetectorStep == DTick \/ DWait \/ DWake \/ DLock \/ DCheck

\* ---- caller --------------------------------------------------------------
\* 591: the worker's deferred wg.Done() has run, on its return or on the
\* unwinding of its panic.
Joined(w) == pc[w] \in {"done", "fatal"}

\* 676-699: wg.Wait() returns once every worker has called wg.Done()
MReturn ==
  /\ Running /\ mainPc = "wait"
  /\ \A w \in Workers : Joined(w)
  /\ ret' = ReturnValue(fetchErr, allFindings)
  /\ mainPc' = "returned"
  /\ UNCHANGED <<workerCount, stubVars, queueVars, lockVars, fetchErr,
                 allFindings, awVars, pc, tok, doneW, dpc, panic, crashed,
                 logVars, prev>>

\* main 929-954: with the result in hand the caller ends the process, through
\* log.Fatalf on an error (929-931), the return on an empty result (933-936)
\* or the end of main (947).  Nothing joins the detector goroutine, so the
\* end of the process stops it wherever it is.
MExit ==
  /\ Running /\ mainPc = "returned"
  /\ mainPc' = "exited"
  /\ UNCHANGED <<workerCount, stubVars, queueVars, lockVars, fetchErr,
                 allFindings, awVars, pc, tok, doneW, dpc, ret, panic,
                 crashed, logVars, prev>>

\* A goroutine whose panic nobody recovers ends the process: once its
\* deferred calls have run the runtime prints the panic and exits with
\* status 2.  Until then every other goroutine keeps running.
PanicExit ==
  /\ Running
  /\ dpc = "fatal" \/ \E w \in Workers : pc[w] = "fatal"
  /\ crashed' = TRUE
  /\ UNCHANGED <<workerCount, stubVars, queueVars, lockVars, fetchErr,
                 allFindings, awVars, pc, tok, doneW, dpc, mainPc, ret,
                 panic, logVars, prev>>

Next ==
  \/ \E w \in Workers : WorkerStep(w)
  \/ DetectorStep
  \/ MReturn
  \/ MExit
  \/ PanicExit

Spec == Init /\ [][Next]_vars

\* ---- two runs against the same stub --------------------------------------
\* The caller invokes fetchFindings with one worker, keeps the result, and
\* invokes it again against the same stub with a larger worker count.
InitPair ==
  /\ InitStub
  /\ InitRun(1)
  /\ prev = NoRun

Rerun ==
  /\ Running /\ mainPc = "returned" /\ prev = NoRun /\ workerCount = 1
  /\ panic = "none"
  /\ prev' = ret
  /\ \E wc \in 2..MaxWorkers :
        /\ workerCount' = wc
        /\ pc' = [w \in 1..wc |-> "loop"]
        /\ tok' = [w \in 1..wc |-> Nil]
        /\ doneW' = [w \in 1..wc |-> 0]
  /\ tokenQueue' = SeedQueue
  /\ isQueueOpen' = TRUE
  /\ closeCount' = 0
  /\ qLock' = Free /\ errMux' = Free /\ findingsMux' = Free
  /\ fetchErr' = NoErr
  /\ allFindings' = <<>>
  /\ awCount' = 0 /\ awWaiters' = 0 /\ awSema' = 0
  /\ dpc' = "tick"
  /\ mainPc' = "wait"
  /\ ret' = NoRun
  /\ warnings' = 0 /\ dropped' = 0
  /\ UNCHANGED <<stubVars, panic, crashed>>

NextPair == Next \/ Rerun

SpecPair == InitPair /\ [][NextPair]_vars

\* ---- fairness ------------------------------------------------------------
\* While the process lives, every goroutine that can take a step is
\* eventually scheduled; timers and the ticker eventually fire.  Fairness is
\* strong because a goroutine that waits for a sync.Mutex is not overtaken
\* for ever (the mutex hands itself to a starving waiter).  The caller does
\* not wait for the detector: once wg.Wait has returned it goes on to the end
\* of the process, and the detector is owed no further step.  A goroutine
\* in the runtime's fatal panic path eventually ends the process.
FairSpec ==
  /\ Spec
  /\ \A w \in 1..MaxWorkers : SF_vars(w \in Workers /\ WorkerStep(w))
  /\ SF_vars(mainPc = "wait" /\ DetectorStep)
  /\ WF_vars(MReturn)
  /\ WF_vars(MExit)
  /\ WF_vars(PanicExit)

\* ---- helpers of the properties -------------------------------------------
\* Number of occurrences of record r in sequence s.
CountIn(s, r) == Cardinality({i \in 1..Len(s) : s[i] = r})

\* All records the chain serves.
ChainRecords == {<<p, i>> : p \in 1..numPages, i \in 1..recsPerPage}

Returned == mainPc # "wait"

\* ---- C1 ------------------------------------------------------------------
\* C1: when no fetch of the chain fails and there is at least one worker,
\* fetchFindings returns no error and a result holding every record of
\* every page exactly once, so its length is the sum of the page sizes.
C1_AllPagesOnce ==
  (Returned /\ workerCount >= 1 /\ failPage = 0) =>
     /\ ret.err = NoErr
     /\ Len(ret.findings) = numPages * recsPerPage
     /\ \A r \in ChainRecords : CountIn(ret.findings, r) = 1

\* ---- C2 ------------------------------------------------------------------
\* C2: when the fetch of page failPage fails, fetchFindings returns that
\* error and a nil result; it never returns success.
C2_FailureReturned ==
  (Returned /\ workerCount >= 1 /\ failPage # 0) =>
     /\ ret.err # NoErr
     /\ ret.err[2] = failPage
     /\ ret.findings = <<>>

\* ---- C3 ------------------------------------------------------------------
\* C3: fetchFindings returns (nil, fetchErr) whenever fetchErr is set after
\* the join, whatever allFindings holds, and (allFindings, nil) otherwise.
C3_OneOfResultOrError ==
  Returned =>
     /\ fetchErr # NoErr => (ret.findings = <<>> /\ ret.err = fetchErr)
     /\ fetchErr = NoErr => (ret.err = NoErr /\ ret.findings = allFindings)

\* An error return that discards records appended before the failure.
C3_Witness ==
  Returned /\ fetchErr # NoErr /\ Len(allFindings) > 0 /\ ret.findings = <<>>

\* ---- C4 ------------------------------------------------------------------
\* C4: against the same error-free chain, the run with one worker and the
\* run with more workers return results of the same size holding the same
\* records the same number of times.
C4_SameResultAnyWorkerCount ==
  (Returned /\ prev # NoRun /\ failPage = 0) =>
     /\ Len(ret.findings) = Len(prev.findings)
     /\ \A r \in ChainRecords :
          CountIn(ret.findings, r) = CountIn(prev.findings, r)

\* ---- C5 ------------------------------------------------------------------
\* While fetchFindings has not returned, some goroutine can take a step.
NoDeadlockState == (Running /\ ~Returned) => ENABLED Next

\* C5: fetchFindings never hangs: no state is a deadlock, and under fair
\* scheduling every worker exits and wg.Wait returns.
C5_NeverHangs == []NoDeadlockState /\ <>Returned

\* ---- C6 ------------------------------------------------------------------
\* C6: the token queue never holds more tokens than its capacity.
C6_QueueWithinCapacity == Len(tokenQueue) <= QueueCap

\* A worker has pushed a follow-on token and the queue holds it.
C6_Witness ==
  /\ Len(tokenQueue) > 0 /\ Head(tokenQueue) # Nil
  /\ \E w \in Workers : pc[w] = "mdone"

\* ---- C7 ------------------------------------------------------------------
\* C7: a push that cannot enqueue its token (queue full or closed) leaves
\* the error sink alone and takes the worker straight on to
\* activeWorkers.Done(), releasing tokenQueueOpen.
C7_FailedPushHarmless ==
  [][\A w \in Workers :
       (pc[w] = "push" /\ PushOutcome(isQueueOpen, tokenQueue) # "sent"
          /\ dropped' # dropped)
       => (pc'[w] = "mdone" /\ fetchErr' = fetchErr /\ qLock' = Free
             /\ panic' = panic)]_vars

\* A run that failed to enqueue a token and still returned success.
C7_Witness == Returned /\ dropped > 0 /\ ret.err = NoErr /\ fetchErr = NoErr

\* ---- C8 ------------------------------------------------------------------
\* C8: every follow-on token that is not enqueued is reported by a
\* queue-full warning in the log.
C8_EveryDropLogged == dropped = warnings

\* ---- C9 ------------------------------------------------------------------
\* C9: the detector closes the queue exactly once: the flag never returns
\* to true, close runs at most once, and under fair scheduling it runs.
C9_ClosedExactlyOnce ==
  /\ [](closeCount <= 1 /\ (isQueueOpen <=> closeCount = 0))
  /\ [][~isQueueOpen => ~isQueueOpen']_vars
  /\ (workerCount >= 1 => <>(closeCount = 1))

\* ---- C10 -----------------------------------------------------------------
\* C10: the first error wins: a failed fetch that finds the sink empty
\* records its own error, and once fetchErr is set no step changes it.
C10_FirstErrorWins ==
  [][/\ fetchErr # NoErr => fetchErr' = fetchErr
     /\ \A w \in Workers :
          (pc[w] = "fset" /\ pc'[w] = "fdone" /\ fetchErr = NoErr)
             => fetchErr' = WorkerError(w, PageOf(tok[w]))]_vars

\* The error recorded by one worker is still the one returned after the
\* other workers have run to their end.
C10_Witness ==
  /\ Returned /\ workerCount >= 2 /\ fetchErr # NoErr /\ ret.err = fetchErr
  /\ Len(allFindings) > 0

\* ---- positions of a worker, as the properties need them ------------------
\* The follow-on token the worker's current page carries, Nil for none.
FollowOn(w) == NextTokenOf(PageOf(tok[w]))

\* The worker has received a token and its fetch has not returned.
BeforeFetchReturn(w) == pc[w] \in {"elock", "echk", "add", "fetch"}

\* The worker has received a token and has not yet called Add(1).
BeforeAdd(w) == pc[w] \in {"elock", "echk", "add"}

\* The worker's fetch has returned a follow-on token whose push has not
\* been completed.
InPushGap(w) ==
  pc[w] \in {"alock", "append", "plock", "push"} /\ FollowOn(w) # Nil

\* Active in the sense of the specification: from the receive of a token
\* until the fetch has returned and the follow-on token has been pushed.
SpecActive(w) == BeforeFetchReturn(w) \/ InPushGap(w)

\* The step in which the detector closes the queue.
ClosesNow == closeCount' = closeCount + 1

\* The step in which activeWorkers.Wait() returns to the detector.
WaitReturnsNow == dpc \in {"wait", "sem"} /\ dpc' = "dlock"

\* ---- C11 -----------------------------------------------------------------
\* C11: once isQueueOpen is false no worker holds a follow-on token from a
\* fetch that is still to be pushed, so none is discarded on the closed
\* queue.
C11_NoTokenAfterClose ==
  ~isQueueOpen => \A w \in Workers : ~InPushGap(w)

\* ---- C12 -----------------------------------------------------------------
\* C12: in the step that closes the queue, the queue is empty and no worker
\* is active in the sense of the specification.
C12_QuiescentAtClose ==
  [][ClosesNow =>
       (Len(tokenQueue) = 0 /\ \A w \in Workers : ~SpecActive(w))]_vars
\* ---- C13 -----------------------------------------------------------------
\* C13: once fetchErr is set, no worker receives a token, passes the error
\* check or starts a page fetch.
C13_NoWorkAfterError ==
  [][fetchErr # NoErr =>
       \A w \in Workers :
         /\ ~(pc[w] = "sel" /\ pc'[w] = "elock")
         /\ ~(pc[w] = "echk" /\ pc'[w] = "add")
         /\ ~(pc[w] = "add" /\ pc'[w] = "fetch")]_vars

\* An error is recorded while another worker waits for a token.
C13_Witness ==
  /\ fetchErr # NoErr
  /\ \E w \in Workers : pc[w] = "sel"
  /\ \E w \in Workers : pc[w] \in {"fdone", "frel", "done"}
IsPrefix(a, b) == Len(a) <= Len(b) /\ SubSeq(b, 1, Len(a)) = a

\* Every record of s sits inside a whole block of its page: record k of a
\* page directly follows record k-1 and is directly followed by record k+1.
WholeBlocks(s) ==
  \A i \in 1..Len(s) :
    LET p == s[i][1]
        k == s[i][2]
    IN /\ k > 1 => (i > 1 /\ s[i - 1] = <<p, k - 1>>)
       /\ k < recsPerPage => (i < Len(s) /\ s[i + 1] = <<p, k + 1>>)

\* C15: the records of a page are appended in one step: in every state
\* they form one contiguous block in the page's order, and a step never
\* removes or reorders what allFindings already holds.
C15_AtomicAppend ==
  /\ []WholeBlocks(allFindings)
  /\ [][IsPrefix(allFindings, allFindings')]_vars

\* Two pages of two records each have been appended.
C15_Witness ==
  /\ recsPerPage = 2 /\ Len(allFindings) >= 4
  /\ allFindings[1][1] # allFindings[3][1]
\* ---- C16 -----------------------------------------------------------------
\* C16: when fetchFindings returns, the detector goroutine has closed the
\* queue and stopped polling.
C16_DetectorEndsBeforeReturn ==
  (Returned /\ workerCount >= 1) => (dpc = "done" /\ ~isQueueOpen)
\* ---- C17 -----------------------------------------------------------------
\* The worker holds a received token and has not finished its follow-on
\* push (or the recording of its fetch error).
HoldsToken(w) ==
  pc[w] \in {"elock", "echk", "add", "fetch", "flock", "fset",
             "alock", "append", "plock", "push"}

\* Number of tokens in the queue and in the hands of workers.
TokensAlive == Len(tokenQueue) + Cardinality({w \in Workers : HoldsToken(w)})

\* C17: at most one token is in the queue or in the hands of a worker, so
\* at most one fetch is in flight and the queue-full warning is never
\* logged.
C17_OneTokenAlive ==
  /\ TokensAlive <= 1
  /\ Cardinality({w \in Workers : pc[w] = "fetch"}) <= 1
  /\ warnings = 0

\* One worker is fetching while the others wait at the empty queue.
C17_Witness ==
  /\ workerCount = MaxWorkers
  /\ \E w \in Workers :
       /\ pc[w] = "fetch" /\ tok[w] # Nil
       /\ \A v \in Workers \ {w} : pc[v] = "sel"
\* ---- C18 -----------------------------------------------------------------
RECURSIVE ChainPrefix(_)
\* The records of pages 1..k, page after page.
ChainPrefix(k) ==
  IF k = 0 THEN <<>> ELSE ChainPrefix(k - 1) \o PageRecords(k)

\* C18: allFindings is the concatenation, in chain order, of the records
\* of the first k pages of the chain, for some k.
C18_ChainOrderPrefix ==
  \E k \in 0..numPages : allFindings = ChainPrefix(k)

\* Several workers have appended the first two pages of a longer chain.
C18_Witness ==
  /\ workerCount >= 2 /\ numPages = 3 /\ recsPerPage >= 1
  /\ allFindings = ChainPrefix(2)
  /\ \E w \in Workers : pc[w] = "fetch" /\ tok[w] = 2
\* ---- C19 -----------------------------------------------------------------
\* Every worker has left its loop and wg.Wait is about to return.
AllWorkersExited == \A w \in Workers : Joined(w)

\* The worker has received a token and not yet started the fetch of its
\* page.
TokenUnfetched(w) == pc[w] \in {"elock", "echk", "add"}

\* C19: with at least one worker, once every worker has exited the queue
\* is empty, and no worker leaves its loop with a token it has received
\* and not fetched.
C19_NoTokenLeftBehind ==
  /\ []((workerCount >= 1 /\ AllWorkersExited) => Len(tokenQueue) = 0)
  /\ [][\A w \in Workers :
          ~(TokenUnfetched(w) /\ pc'[w] \in {"done", "unwind"})]_vars

\* ---- C20 -----------------------------------------------------------------
\* The detector is inside activeWorkers.Wait(): registered as a waiter and
\* asleep, or released and not yet returned.
DetectorInWait == dpc = "sem"

\* C20: no Add(1) raises the counter of activeWorkers from zero while the
\* detector is inside Wait(), the counter is never negative, and the
\* WaitGroup never panics.
C20_WaitGroupNotMisused ==
  /\ [][(awCount = 0 /\ awCount' = 1) => ~DetectorInWait]_vars
  /\ [](awCount >= 0 /\ panic = "none")
\* ---- C21 -----------------------------------------------------------------
\* C21: with a worker count of zero or less no worker exists and no page
\* is fetched, the seed token stays in the open queue, which the detector
\* never closes, and fetchFindings returns an empty result and no error.
C21_NoWorkers ==
  workerCount <= 0 =>
     /\ Workers = {} /\ awCount = 0
     /\ allFindings = <<>> /\ fetchErr = NoErr
     /\ tokenQueue = <<Nil>> /\ isQueueOpen /\ closeCount = 0 /\ dpc # "done"
     /\ Returned => ret = [findings |-> <<>>, err |-> NoErr]

\* fetchFindings has returned without workers and the detector, still
\* polling, is looking at the queue that holds the seed token.
C21_Witness ==
  /\ workerCount <= 0 /\ Returned /\ ret.err = NoErr
  /\ dpc = "dchk" /\ Len(tokenQueue) = 1

====
